---- MODULE Spec2Model ----
(***************************************************************************)
(* A model of src/main.py, the Tung Tung Tung Sahur NFT bot:               *)
(*   - validate_telegram_webapp_data, the check of a signed initData,      *)
(*   - get_current_seqno and its process-wide cache _seqno_cache,          *)
(*   - check_nft_active and get_nft_address, the two blockchain queries.   *)
(*                                                                         *)
(* Python values are written as tagged records: a JSON value is            *)
(* [t |-> "null"], [t |-> "bool", v |-> ..], [t |-> "int", v |-> ..],      *)
(* [t |-> "str", v |-> ..], [t |-> "array", v |-> <<..>>] or               *)
(* [t |-> "object", v |-> <<..>>] with the members as <<name, value>> in    *)
(* the order of the document, the order a Python dict keeps.               *)
(* Python's None is JNull.  An operator that models code which may raise   *)
(* returns [exc |-> "<exception class>"] for a raised exception and        *)
(* [exc |-> "", ...] otherwise.                                            *)
(*                                                                         *)
(* Three specifications share the variables:                               *)
(*   SpecVerify  the signed-payload check on drawn payloads,               *)
(*   SpecSeqno   concurrent get_current_seqno calls on one event loop,     *)
(*   SpecNft     get_nft_address calls with their upstream exchanges.      *)
(***************************************************************************)
EXTENDS Integers, Sequences, FiniteSets, TLC

VARIABLES
    init_data,      \* the payload handed to validate_telegram_webapp_data
    validation,     \* its ValidationResult, NoResult before the call
    now,            \* asyncio.get_event_loop().time(), in seconds
    tip,            \* the masterchain seqno the upstream would serve now
    seqno_cache,    \* the global _seqno_cache
    task,           \* the coroutines: one record per call slot
    calls           \* number of calls begun so far

vars == <<init_data, validation, now, tip, seqno_cache, task, calls>>

-----------------------------------------------------------------------------
(* JSON / Python values *)

JNull == [t |-> "null"]
JBool(b) == [t |-> "bool", v |-> b]
JInt(n) == [t |-> "int", v |-> n]
JStr(s) == [t |-> "str", v |-> s]
JArr(s) == [t |-> "array", v |-> s]
JObj(items) == [t |-> "object", v |-> items]

\* Python truthiness of a JSON value (None, False, 0, "", [] and {} are falsy).
Truthy(x) ==
    CASE x.t = "null" -> FALSE
      [] x.t = "bool" -> x.v
      [] x.t = "int" -> x.v # 0
      [] x.t = "str" -> x.v # ""
      [] x.t = "array" -> Len(x.v) > 0
      [] x.t = "object" -> Len(x.v) > 0

\* `key in d` and dict.get(key, default) on a parsed JSON object.
ObjKeys(obj) == {obj.v[i][1] : i \in 1..Len(obj.v)}
DictGet(obj, key, default) ==
    IF key \in ObjKeys(obj)
    THEN obj.v[CHOOSE i \in 1..Len(obj.v) : obj.v[i][1] = key][2]
    ELSE default

\* ", ".join(parts)
RECURSIVE JoinComma(_)
JoinComma(parts) ==
    IF parts = <<>> THEN ""
    ELSE IF Len(parts) = 1 THEN parts[1]
    ELSE parts[1] \o ", " \o JoinComma(Tail(parts))

\* repr(x) of a parsed JSON value (strings without characters to escape).
RECURSIVE PyRepr(_)
PyRepr(x) ==
    CASE x.t = "null" -> "None"
      [] x.t = "bool" -> IF x.v THEN "True" ELSE "False"
      [] x.t = "int" -> ToString(x.v)
      [] x.t = "str" -> "'" \o x.v \o "'"
      [] x.t = "array" -> "[" \o JoinComma([i \in 1..Len(x.v) |-> PyRepr(x.v[i])]) \o "]"
      [] x.t = "object" ->
            "{" \o JoinComma([i \in 1..Len(x.v) |->
                        "'" \o x.v[i][1] \o "': " \o PyRepr(x.v[i][2])]) \o "}"

\* str(x), what an f-string renders: a string as itself, anything else as
\* its repr.
PyStr(x) == IF x.t = "str" THEN x.v ELSE PyRepr(x)

\* x == n for an integer n: Python's bool is an int, False == 0 and True == 1.
PyEqInt(x, n) ==
    \/ x.t = "int" /\ x.v = n
    \/ x.t = "bool" /\ (IF x.v THEN 1 ELSE 0) = n

-----------------------------------------------------------------------------
(* validate_telegram_webapp_data *)

\* Number of hex digits of the modelled digest (SHA-256 has 64).
DigestLen == 4
\* Longest payload without its hash pair.
MaxFields == 2

\* The BOT_TOKEN of the deployment, and another token.
BOT_TOKEN == "1:A"
OTHER_TOKEN == "2:B"

\* str.encode(): the UTF-8 bytes of the strings the model uses.
Encode(s) ==
    CASE s = "auth_date" -> <<97, 117, 116, 104, 95, 100, 97, 116, 101>>
      [] s = "hash" -> <<104, 97, 115, 104>>
      [] s = "query_id" -> <<113, 117, 101, 114, 121, 95, 105, 100>>
      [] s = "user" -> <<117, 115, 101, 114>>
      [] s = "1" -> <<49>>
      [] s = "Q" -> <<81>>
      [] s = "{\"id\":7}" -> <<123, 34, 105, 100, 34, 58, 55, 125>>
      [] s = "{\"id\":42}" -> <<123, 34, 105, 100, 34, 58, 52, 50, 125>>
      [] s = "{\"name\":\"a\"}" -> <<123, 34, 110, 97, 109, 101, 34, 58, 34, 97, 34, 125>>
      [] s = "{\"id\":null}" -> <<123, 34, 105, 100, 34, 58, 110, 117, 108, 108, 125>>
      [] s = "{\"id\":" -> <<123, 34, 105, 100, 34, 58>>
      [] s = "[7]" -> <<91, 55, 93>>
      [] s = "" -> <<>>
      [] s = "WebAppData" -> <<87, 101, 98, 65, 112, 112, 68, 97, 116, 97>>
      [] s = "1:A" -> <<49, 58, 65>>
      [] s = "2:B" -> <<50, 58, 66>>

\* json.loads on the user texts the model draws: the parsed value, or
\* JSONDecodeError.
json_loads(s) ==
    CASE s = "{\"id\":7}" -> [exc |-> "", value |-> JObj(<<<<"id", JInt(7)>>>>)]
      [] s = "{\"id\":42}" -> [exc |-> "", value |-> JObj(<<<<"id", JInt(42)>>>>)]
      [] s = "{\"name\":\"a\"}" -> [exc |-> "", value |-> JObj(<<<<"name", JStr("a")>>>>)]
      [] s = "{\"id\":null}" -> [exc |-> "", value |-> JObj(<<<<"id", JNull>>>>)]
      [] s = "[7]" -> [exc |-> "", value |-> JArr(<<JInt(7)>>)]
      [] OTHER -> [exc |-> "JSONDecodeError"]

\* Byte strings compared as Python compares str keys (by code point).
RECURSIVE BytesLess(_, _)
BytesLess(a, b) ==
    IF b = <<>> THEN FALSE
    ELSE IF a = <<>> THEN TRUE
    ELSE IF Head(a) # Head(b) THEN Head(a) < Head(b)
    ELSE BytesLess(Tail(a), Tail(b))

StrLess(a, b) == BytesLess(Encode(a), Encode(b))

\* urllib.parse.parse_qsl with keep_blank_values=False: the pairs in order,
\* those with a blank value dropped.  A pair is <<key, value>>.
parse_qsl(qs) == SelectSeq(qs, LAMBDA p : p[2] # "")

\* dict(pairs): insertion-ordered, a repeated key keeps its place and takes
\* the last value.  The dict is the sequence of its items.
RECURSIVE DictOf(_)
DictOf(pairs) ==
    IF pairs = <<>> THEN <<>>
    ELSE LET init == DictOf(SubSeq(pairs, 1, Len(pairs) - 1))
             p == pairs[Len(pairs)]
         IN IF \E i \in 1..Len(init) : init[i][1] = p[1]
            THEN [i \in 1..Len(init) |-> IF init[i][1] = p[1] THEN p ELSE init[i]]
            ELSE Append(init, p)

Keys(d) == {d[i][1] : i \in 1..Len(d)}
Lookup(d, k) == d[CHOOSE i \in 1..Len(d) : d[i][1] = k][2]
\* dict.pop(key, None) / dict.get(key): the value or None, as a JSON value.
GetOrNone(d, k) == IF k \in Keys(d) THEN JStr(Lookup(d, k)) ELSE JNull
Without(d, k) == SelectSeq(d, LAMBDA p : p[1] # k)

\* sorted(keys)
RECURSIVE sorted(_)
sorted(S) ==
    IF S = {} THEN <<>>
    ELSE LET m == CHOOSE x \in S : \A y \in S \ {x} : StrLess(x, y)
         IN <<m>> \o sorted(S \ {m})

\* A variant that lists the keys in the dict's insertion order.
check_key_order_unsorted(d) == [i \in 1..Len(d) |-> d[i][1]]
\* The keys in the order the check string lists them: sorted(parsed_data.keys()).
check_key_order(d) == sorted(Keys(d))

\* data_check_arr joined by "\n" and encoded: the bytes that are signed.
RECURSIVE JoinLines(_)
JoinLines(lines) ==
    IF lines = <<>> THEN <<>>
    ELSE IF Len(lines) = 1 THEN lines[1]
    ELSE lines[1] \o <<10>> \o JoinLines(Tail(lines))

data_check_string(d) ==
    LET ks == check_key_order(d)
    IN JoinLines([i \in 1..Len(ks) |-> Encode(ks[i]) \o <<61>> \o Encode(Lookup(d, ks[i]))])

\* hmac.new(key, msg, hashlib.sha256).digest(), modelled by a keyed
\* polynomial checksum of DigestLen hex digits, a sequence of nibbles.  The
\* model rests on equality of digests only; DigestsDistinct states that the
\* checksum tells apart all the check strings and keys the model signs with.
HashModulus == 32749
HashBase == 263

\* HashBase^n modulo HashModulus, by squaring.
RECURSIVE PowMod(_)
PowMod(n) ==
    IF n = 0 THEN 1
    ELSE LET h == PowMod(n \div 2)
             sq == (h * h) % HashModulus
         IN IF n % 2 = 0 THEN sq ELSE (sq * HashBase) % HashModulus

\* The polynomial of bytes[lo..hi] in HashBase modulo HashModulus, by halving.
RECURSIVE Poly(_, _, _)
Poly(bytes, lo, hi) ==
    IF lo > hi THEN 0
    ELSE IF lo = hi THEN bytes[lo] + 1
    ELSE LET mid == (lo + hi) \div 2
         IN (((Poly(bytes, lo, mid) * PowMod(hi - mid)) % HashModulus)
             + Poly(bytes, mid + 1, hi)) % HashModulus

\* The checksum of the bytes, seeded by acc.
Mix(acc, bytes) ==
    ((((acc + 1) * PowMod(Len(bytes) + 1)) % HashModulus)
     + Poly(bytes, 1, Len(bytes))) % HashModulus

RECURSIVE Pow16(_)
Pow16(n) == IF n = 0 THEN 1 ELSE 16 * Pow16(n - 1)

RECURSIVE Nibbles(_, _)
Nibbles(n, len) ==
    IF len = 0 THEN <<>> ELSE Append(Nibbles(n \div 16, len - 1), n % 16)

hmac_digest(key, msg) == Nibbles(Mix(Mix(7, key), msg) % Pow16(DigestLen), DigestLen)

HexDigits == <<"0", "1", "2", "3", "4", "5", "6", "7", "8", "9", "a", "b", "c", "d", "e", "f">>

\* bytes.hex(): the digest as a lower-case hex string.
RECURSIVE hexdigest(_)
hexdigest(nibbles) ==
    IF nibbles = <<>> THEN ""
    ELSE HexDigits[Head(nibbles) + 1] \o hexdigest(Tail(nibbles))

secret_key == hmac_digest(Encode("WebAppData"), Encode(BOT_TOKEN))
calculated_hash(d) == hexdigest(hmac_digest(secret_key, data_check_string(d)))

\* A variant that indexes user_data['id'] and so raises on a missing id.
user_id_of_strict(user_data) ==
    IF user_data.t = "object" /\ "id" \in ObjKeys(user_data)
    THEN [exc |-> "", value |-> DictGet(user_data, "id", JNull)]
    ELSE [exc |-> "KeyError"]
\* user_data.get('id') on whatever json.loads returned: only a dict has .get.
user_id_of(user_data) ==
    IF user_data.t = "object"
    THEN [exc |-> "", value |-> DictGet(user_data, "id", JNull)]
    ELSE [exc |-> "AttributeError"]

validate_telegram_webapp_data(data) ==
    LET parsed == DictOf(parse_qsl(data))
        received_hash == GetOrNone(parsed, "hash")
        parsed_data == Without(parsed, "hash")
        user_data_str == GetOrNone(parsed_data, "user")
        loaded == json_loads(user_data_str.v)
        uid == user_id_of(loaded.value)
    IN IF ~Truthy(received_hash) THEN [isValid |-> FALSE]
       ELSE IF calculated_hash(parsed_data) # received_hash.v THEN [isValid |-> FALSE]
       ELSE IF ~Truthy(user_data_str) THEN [isValid |-> FALSE, userId |-> JNull]
       ELSE IF loaded.exc # "" THEN [isValid |-> FALSE]
       ELSE IF uid.exc # "" THEN [isValid |-> FALSE]
       ELSE [isValid |-> TRUE, userId |-> uid.value]

NoResult == [none |-> TRUE]

-----------------------------------------------------------------------------
(* The payloads SpecVerify draws *)

UserTexts == {"{\"id\":7}", "{\"id\":42}", "{\"name\":\"a\"}", "{\"id\":null}",
              "{\"id\":", "[7]", ""}
FieldPairs == {<<"auth_date", "1">>, <<"query_id", "Q">>} \cup {<<"user", u>> : u \in UserTexts}
FieldSeqs == UNION {[1..n -> FieldPairs] : n \in 0..MaxFields}

\* What the payload's fields are, stated apart from the code: the value of a
\* key is its last non-blank one.
HasField(fields, k) == \E i \in 1..Len(fields) : fields[i][1] = k /\ fields[i][2] # ""
FieldValue(fields, k) ==
    LET last == CHOOSE i \in 1..Len(fields) :
                    /\ fields[i][1] = k /\ fields[i][2] # ""
                    /\ \A j \in (i + 1)..Len(fields) : ~(fields[j][1] = k /\ fields[j][2] # "")
    IN fields[last][2]
FieldKeys(fields) == {k \in {"auth_date", "query_id", "user"} : HasField(fields, k)}

\* The canonical check string: every field but hash, ascending by key,
\* key=value, joined by newline.
CanonicalBytes(fields) ==
    LET K == FieldKeys(fields)
        ks == CHOOSE s \in [1..Cardinality(K) -> K] :
                  \A i, j \in 1..Cardinality(K) : i < j => StrLess(s[i], s[j])
    IN JoinLines([i \in 1..Len(ks) |-> Encode(ks[i]) \o <<61>> \o Encode(FieldValue(fields, ks[i]))])

\* The signature a holder of `token` computes for the bytes of a check
\* string, and for the fields, as nibbles.
SignBytes(bytes, token) ==
    hmac_digest(hmac_digest(Encode("WebAppData"), Encode(token)), bytes)
Signature(fields, token) == SignBytes(CanonicalBytes(fields), token)

\* The hash values tried with given fields: the expected one, every
\* single-character change of it, it cut short, the one signed with another
\* token, a blank one, and the signatures of other payloads (of no fields, of
\* the fields without the last, of the fields reversed).
HashChoices(fields) ==
    LET e == Signature(fields, BOT_TOKEN)
    IN {hexdigest(e), hexdigest(SubSeq(e, 1, Len(e) - 1)),
        hexdigest(Signature(fields, OTHER_TOKEN)), "",
        hexdigest(Signature(<<>>, BOT_TOKEN)),
        hexdigest(Signature(SubSeq(fields, 1, Len(fields) - 1), BOT_TOKEN)),
        hexdigest(Signature([i \in 1..Len(fields) |-> fields[Len(fields) + 1 - i]], BOT_TOKEN))}
       \cup {hexdigest([e EXCEPT ![i] = d]) : i \in 1..Len(e), d \in 0..15}

\* Every check string the drawn payloads have.
CheckStrings == {CanonicalBytes(f) : f \in FieldSeqs}
\* The digest stand-in tells apart what HMAC-SHA256 tells apart: two
\* different check strings under the bot's key, and one check string under
\* the two tokens.
DigestsDistinct ==
    /\ \A m1, m2 \in CheckStrings :
          m1 # m2 => SignBytes(m1, BOT_TOKEN) # SignBytes(m2, BOT_TOKEN)
    /\ \A m \in CheckStrings : SignBytes(m, BOT_TOKEN) # SignBytes(m, OTHER_TOKEN)

\* The payload made of the fields and a hash pair put first or last; "none"
\* stands for a payload without a hash pair.
Payload(f, h, front) ==
    IF h = "none" THEN f
    ELSE IF front THEN <<<<"hash", h>>>> \o f
    ELSE f \o <<<<"hash", h>>>>

-----------------------------------------------------------------------------
(* The upstream RPC endpoint and the HTTP exchange *)

\* Seconds the clock advances in one step, and the number of such steps.
TickStep == 30
MaxTicks == 4
\* The highest masterchain seqno the upstream reaches.
MaxTip == 2
\* Calls begun in a behaviour of SpecSeqno, and of SpecNft.
MaxCalls == 2
MaxNftCalls == 2

Tasks == 1..MaxCalls
UserIds == {7}

NoResponse == [status |-> "none"]
NoReturn == [none |-> TRUE]
Return(x) == [exc |-> "", value |-> x]
Raise(e) == [exc |-> e]

\* What one HTTP exchange can end in.  status is "network_error" (connection
\* failure or the 30 s timeout), "http_error" (a status raise_for_status
\* rejects), "bad_json" (a body that is no JSON) or "ok" (body is the JSON).
HttpFailures ==
    {[status |-> "network_error"], [status |-> "http_error", code |-> 500],
     [status |-> "bad_json"]}
Ok(body) == [status |-> "ok", body |-> body]

\* `async with session.get/post(..., raise_for_status=True) as response:
\*      data = await response.json()`
fetch(resp) ==
    CASE resp.status = "network_error" -> Raise("ClientConnectionError")
      [] resp.status = "http_error" -> [exc |-> "ClientResponseError", status |-> resp.code]
      [] resp.status = "bad_json" -> Raise("JSONDecodeError")
      [] resp.status = "ok" -> [exc |-> "", data |-> resp.body]

\* getMasterchainInfo answers when the tip is n; an ok answer whose seqno
\* member is the JSON value x.
SeqnoBody(x) ==
    JObj(<<<<"ok", JBool(TRUE)>>,
           <<"result", JObj(<<<<"last", JObj(<<<<"seqno", x>>>>)>>>>)>>>>)
InfoBody(n) == SeqnoBody(JInt(n))
\* Seqno members that are no integer.
OddSeqnos == {JStr("x"), JNull}
InfoResponses(n) ==
    HttpFailures \cup
    {Ok(InfoBody(n)),
     Ok(JObj(<<<<"ok", JBool(FALSE)>>, <<"error", JStr("busy")>>>>)),
     Ok(JObj(<<<<"ok", JBool(TRUE)>>, <<"result", JObj(<<<<"last", JObj(<<>>)>>>>)>>>>)),
     Ok(JObj(<<<<"ok", JBool(TRUE)>>, <<"result", JNull>>>>)),
     Ok(JArr(<<>>))}
    \cup {Ok(SeqnoBody(x)) : x \in OddSeqnos}

-----------------------------------------------------------------------------
(* get_current_seqno *)

\* The cache lifetime in seconds.
CacheTTL == 60

\* A variant that is fresh up to and including the lifetime.
cache_fresh_inclusive(cache, current_time) == current_time - cache.timestamp <= CacheTTL
\* `current_time - _seqno_cache["timestamp"] < 60`
cache_fresh(cache, current_time) == current_time - cache.timestamp < CacheTTL

\* `_seqno_cache["value"] or 0`
value_or_0(cache) == IF Truthy(cache.value) THEN cache.value ELSE JInt(0)

\* A variant whose refresh stores the value and leaves the timestamp.
seqno_on_response_keeps_timestamp(cache, current_time, resp) ==
    IF resp.status = "ok" /\ resp.body.t = "object"
       /\ Truthy(DictGet(resp.body, "ok", JBool(FALSE)))
       /\ DictGet(resp.body, "result", JObj(<<>>)).t = "object"
       /\ DictGet(DictGet(resp.body, "result", JObj(<<>>)), "last", JObj(<<>>)).t = "object"
    THEN LET seqno == DictGet(DictGet(DictGet(resp.body, "result", JObj(<<>>)),
                                      "last", JObj(<<>>)), "seqno", JInt(0))
         IN [cache |-> [value |-> seqno, timestamp |-> cache.timestamp], ret |-> seqno]
    ELSE [cache |-> cache, ret |-> value_or_0(cache)]
\* The try block of get_current_seqno from the response on: the cache it
\* leaves and the value it returns.
seqno_on_response(cache, current_time, resp) ==
    LET f == fetch(resp)
        stale == [cache |-> cache, ret |-> value_or_0(cache)]
        data == f.data
        result == DictGet(data, "result", JObj(<<>>))
        last_block == DictGet(result, "last", JObj(<<>>))
        seqno == DictGet(last_block, "seqno", JInt(0))
    IN IF f.exc # "" THEN stale
       ELSE IF data.t # "object" THEN stale                \* AttributeError
       ELSE IF ~Truthy(DictGet(data, "ok", JBool(FALSE))) THEN stale
       ELSE IF result.t # "object" THEN stale              \* AttributeError
       ELSE IF last_block.t # "object" THEN stale          \* AttributeError
       ELSE [cache |-> [value |-> seqno, timestamp |-> current_time], ret |-> seqno]

-----------------------------------------------------------------------------
(* check_nft_active *)

StateResponses ==
    HttpFailures \cup
    {Ok(JObj(<<<<"ok", JBool(TRUE)>>, <<"result", JStr("active")>>>>)),
     Ok(JObj(<<<<"ok", JBool(TRUE)>>, <<"result", JStr("uninitialized")>>>>)),
     Ok(JObj(<<<<"ok", JBool(FALSE)>>, <<"result", JStr("active")>>>>)),
     Ok(JObj(<<<<"ok", JBool(TRUE)>>>>)),
     Ok(JArr(<<>>))}

\* A variant that does not look at the ok member.
check_nft_active_ignores_ok(resp) ==
    IF fetch(resp).exc # "" \/ fetch(resp).data.t # "object" THEN Return(FALSE)
    ELSE Return(DictGet(fetch(resp).data, "result", JStr("")) = JStr("active"))
\* check_nft_active from the response on; every exception is caught and
\* answered False.
check_nft_active(resp) ==
    LET f == fetch(resp)
        data == f.data
    IN IF f.exc # "" THEN Return(FALSE)
       ELSE IF data.t # "object" THEN Return(FALSE)        \* AttributeError
       ELSE IF ~Truthy(DictGet(data, "ok", JBool(FALSE))) THEN Return(FALSE)
       ELSE Return(DictGet(data, "result", JStr("")) = JStr("active"))

-----------------------------------------------------------------------------
(* The decoder: base64.b64decode, Cell.one_from_boc, load_address, to_str *)

\* Bytes of an address hash part.
HashPartLen == 32

ZeroHash == [i \in 1..HashPartLen |-> 0]
Address(wc, hash) == [t |-> "address", workchain |-> wc, hash_part |-> hash]

\* The containers the upstream may hand back, by name, and what
\* pytoniq_core reads from each: an address, None (addr_none), or an error.
Bocs == {"BOC_AB", "BOC_LOW", "BOC_ZERO", "BOC_NONE", "BOC_TRUNCATED"}
load_address(boc) ==
    CASE boc = "BOC_AB" -> Return(Address(0, [i \in 1..HashPartLen |-> 171]))
      [] boc = "BOC_LOW" -> Return(Address(0, [i \in 1..HashPartLen |-> IF i = HashPartLen THEN 1 ELSE 0]))
      [] boc = "BOC_ZERO" -> Return(Address(0, ZeroHash))
      [] boc = "BOC_NONE" -> Return(JNull)
      [] OTHER -> Raise("BocError")

\* Address.to_str(is_user_friendly=True, ...): a rendering that tells the
\* modelled addresses apart.
to_str(addr) ==
    "EQ" \o ToString(addr.workchain) \o "_" \o ToString(addr.hash_part[1])
         \o "_" \o ToString(addr.hash_part[HashPartLen])

\* `nft_addr_obj.hash_part == b'\x00' * 32`
is_zero_address(addr) == addr.hash_part = ZeroHash

-----------------------------------------------------------------------------
(* get_nft_address *)

\* The emoji of the messages, spelled by code point.
CHECK == "<U+2705>"
INFO == "<U+2139 U+FE0F>"
WARN == "<U+26A0 U+FE0F>"

\* Exit codes the code names.
ExitIndexNotFound == -14
ExitAlt == -1

NotMinted(user_id, why) ==
    INFO \o " NFT for user " \o ToString(user_id) \o " is " \o why \o "."

\* runGetMethod answers.  A result has any of exit_code and stack, and
\* gas_used when `extra`.
ExitCodes == {0, ExitAlt, ExitIndexNotFound, 11}
Entry(type, value) == JArr(<<JStr(type), value>>)
CellOf(boc) == Entry("cell", JObj(<<<<"bytes", JStr(boc)>>>>))
\* First stack entries: [type, value] pairs, and entries of other shapes.
FirstEntries ==
    {CellOf(b) : b \in Bocs} \cup
    {Entry("null", JNull), Entry("num", JStr("0")), Entry("num", JStr("0x1")),
     Entry("cell", JObj(<<<<"object", JStr("x")>>>>)),
     Entry("cell", JObj(<<<<"bytes", JInt(5)>>>>)),
     Entry("slice", JObj(<<<<"bytes", JStr("BOC_AB")>>>>)),
     JArr(<<JStr("num")>>), JStr("ab"), JStr("abc"), JNull, JInt(5),
     JObj(<<<<"cell", JInt(1)>>, <<"b", JInt(2)>>>>),
     JObj(<<<<"null", JInt(1)>>, <<"b", JInt(2)>>>>),
     JObj(<<<<"cell", JInt(1)>>>>)}
Stacks ==
    {JArr(<<>>)} \cup {JArr(<<e>>) : e \in FirstEntries}
    \cup {JArr(<<Entry("num", JStr("0")), CellOf("BOC_AB")>>)}
\* Stack members that are no list.
OddStacks == {JStr("ab"), JStr(""), JInt(5), JInt(0), JObj(<<<<"0", JInt(1)>>>>), JObj(<<>>)}
RunResult(has_code, code, has_stack, stack, extra) ==
    JObj((IF has_code THEN <<<<"exit_code", JInt(code)>>>> ELSE <<>>)
         \o (IF has_stack THEN <<<<"stack", stack>>>> ELSE <<>>)
         \o (IF extra THEN <<<<"gas_used", JInt(0)>>>> ELSE <<>>))
RunResults ==
    {RunResult(TRUE, c, TRUE, s, FALSE) : c \in ExitCodes, s \in Stacks}
    \cup {RunResult(FALSE, 0, TRUE, s, FALSE) : s \in Stacks \cup OddStacks}
    \cup {RunResult(TRUE, c, FALSE, JNull, FALSE) : c \in ExitCodes}
    \cup {RunResult(FALSE, 0, FALSE, JNull, e) : e \in BOOLEAN}
OkBody(r) == JObj(<<<<"ok", JBool(TRUE)>>, <<"result", r>>>>)
\* Answers that carry no usable result.
BadRunResponses ==
    HttpFailures \cup
    {Ok(JObj(<<<<"ok", JBool(FALSE)>>, <<"error", JStr("busy")>>>>)),
     Ok(JObj(<<<<"ok", JBool(FALSE)>>, <<"error", JObj(<<<<"code", JInt(500)>>>>)>>>>)),
     Ok(JObj(<<<<"ok", JBool(FALSE)>>>>)),
     Ok(JObj(<<<<"ok", JBool(TRUE)>>>>)),
     Ok(OkBody(JArr(<<JInt(1)>>))),
     Ok(JArr(<<>>))}
RunResponses == BadRunResponses \cup {Ok(OkBody(r)) : r \in RunResults}

\* Lines 299-324 up to the await of check_nft_active: the message returned,
\* or the address string to check ([check |-> address]).
decode_cell(user_id, cell_boc_b64) ==
    LET loaded == IF cell_boc_b64.t # "str"
                  THEN Raise("TypeError")              \* base64.b64decode
                  ELSE load_address(cell_boc_b64.v)
        nft_addr_obj == loaded.value
    IN IF loaded.exc # ""
       THEN Return(JStr(WARN \o " Error processing blockchain data: " \o loaded.exc))
       ELSE IF nft_addr_obj = JNull \/ is_zero_address(nft_addr_obj)
       THEN Return(JStr(NotMinted(user_id, "not minted (zero address returned)")))
       ELSE [exc |-> "", check |-> to_str(nft_addr_obj)]

\* `stack[0]` of a stack that passed line 291: len() and indexing by type.
first_item(stack) ==
    CASE stack.t = "array" -> Return(stack.v[1])
      [] stack.t = "str" -> Return(JStr(SubSeq(stack.v, 1, 1)))
      [] stack.t = "object" -> Raise("KeyError")
      [] OTHER -> Raise("TypeError")                    \* len() of a number

\* `item_type, item_value = stack[0]`: unpacking any iterable of two: a
\* list's elements, a string's characters, a dict's keys.
unpack_pair(item) ==
    CASE item.t = "array" ->
            IF Len(item.v) = 2
            THEN [exc |-> "", item_type |-> item.v[1], item_value |-> item.v[2]]
            ELSE Raise("ValueError")
      [] item.t = "str" ->
            IF Len(item.v) = 2
            THEN [exc |-> "", item_type |-> JStr(SubSeq(item.v, 1, 1)),
                  item_value |-> JStr(SubSeq(item.v, 2, 2))]
            ELSE Raise("ValueError")
      [] item.t = "object" ->
            IF Len(item.v) = 2
            THEN [exc |-> "", item_type |-> JStr(item.v[1][1]),
                  item_value |-> JStr(item.v[2][1])]
            ELSE Raise("ValueError")
      [] OTHER -> Raise("TypeError")

\* Lines 289-329: the stack of an accepted result.
process_stack(user_id, result) ==
    LET stack == DictGet(result, "stack", JNull)
        first == first_item(stack)
        pair == unpack_pair(first.value)
        item_type == pair.item_type
        item_value == pair.item_value
    IN IF ~Truthy(stack)
       THEN Return(JStr(NotMinted(user_id, "not minted (empty stack)")))
       ELSE IF first.exc # "" THEN first
       ELSE IF pair.exc # "" THEN pair
       ELSE IF /\ item_type = JStr("cell")
               /\ item_value.t = "object"
               /\ "bytes" \in ObjKeys(item_value)
       THEN decode_cell(user_id, DictGet(item_value, "bytes", JNull))
       ELSE IF \/ item_type = JStr("null")
               \/ (item_type = JStr("num") /\ item_value = JStr("0"))
       THEN Return(JStr(NotMinted(user_id, "not minted (no address found)")))
       ELSE Return(JStr("Unexpected data format in blockchain response."))

\* `exit_code not in [0, -1, -14]`, by Python equality.
in_accepted_codes(exit_code) ==
    \E n \in {0, ExitAlt, ExitIndexNotFound} : PyEqInt(exit_code, n)

\* A variant that tests the -14 exit code before the other exit codes and so
\* reads the stack for the other codes.
exit_code_message_late(user_id, exit_code) ==
    IF PyEqInt(exit_code, ExitIndexNotFound)
    THEN Return(JStr(NotMinted(user_id, "not minted (index not found in collection)")))
    ELSE [exc |-> "", continue |-> TRUE]
\* Lines 281-287: the message an exit code decides, if it decides one.
exit_code_message(user_id, exit_code) ==
    IF exit_code # JNull /\ ~in_accepted_codes(exit_code)
    THEN Return(JStr(INFO \o " NFT for user " \o ToString(user_id)
                     \o " is likely not minted (exit code: " \o PyStr(exit_code) \o ")."))
    ELSE IF PyEqInt(exit_code, ExitIndexNotFound)
    THEN Return(JStr(NotMinted(user_id, "not minted (index not found in collection)")))
    ELSE [exc |-> "", continue |-> TRUE]

\* Lines 261-329 from the runGetMethod response on.
classify_run(user_id, resp) ==
    LET f == fetch(resp)
        data == f.data
        result == DictGet(data, "result", JNull)
        by_code == exit_code_message(user_id, DictGet(result, "exit_code", JNull))
    IN IF f.exc = "ClientResponseError"
       THEN Return(JStr("Error communicating with blockchain: Status " \o ToString(f.status)))
       ELSE IF f.exc # "" THEN Raise(f.exc)
       ELSE IF data.t # "object" THEN Raise("AttributeError")
       ELSE IF ~Truthy(DictGet(data, "ok", JBool(FALSE)))
       THEN Return(JStr("Blockchain error: " \o PyStr(DictGet(data, "error", JStr("Unknown error")))))
       ELSE IF ~Truthy(result) THEN Return(JStr("Invalid response from blockchain"))
       ELSE IF result.t # "object" THEN Raise("AttributeError")
       ELSE IF "value" \in DOMAIN by_code THEN by_code
       ELSE process_stack(user_id, result)

\* Lines 331-333: `except Exception as e` around the whole of get_nft_address.
outer_except(r) ==
    IF r.exc # "" THEN Return(JStr("An unexpected error occurred: " \o r.exc)) ELSE r

\* Lines 316-321: the message once check_nft_active has answered.
active_message(user_id, nft_address_str, is_active) ==
    IF is_active
    THEN CHECK \o " Minted NFT Address: " \o nft_address_str
    ELSE NotMinted(user_id, "not minted (address " \o nft_address_str \o " is not active)")

-----------------------------------------------------------------------------
(* The coroutines *)

IdleTask ==
    [pc |-> "idle", entry |-> "", user_id |-> 0, current_time |-> 0,
     seen |-> [value |-> JInt(0), timestamp |-> 0], done_before |-> {}, returned_after |-> {},
     info_resp |-> NoResponse, run_resp |-> NoResponse, state_resp |-> NoResponse,
     current_seqno |-> JInt(0), nft_address_str |-> "", ret |-> NoReturn, sent |-> <<>>]

InfoRequest == [endpoint |-> "getMasterchainInfo"]
RunRequest(user_id, seqno) ==
    [endpoint |-> "runGetMethod", method |-> "get_nft_address_by_index",
     stack |-> <<<<"num", ToString(user_id)>>>>, seqno |-> seqno]
StateRequest(address) == [endpoint |-> "getAddressState", address |-> address]

Unverified == UNCHANGED <<init_data, validation>>

\* What a call records when it returns, beside the value: for a
\* get_current_seqno call, the calls that had returned before it.
Ended(t, r) ==
    [t EXCEPT !.pc = "done", !.ret = r,
              !.returned_after = IF t.entry = "get_current_seqno"
                                 THEN {d \in Tasks : task[d].pc = "done"} ELSE {}]

\* What a call records when it begins, beside its code's own variables: the
\* cache it found (seen) and, for a get_current_seqno call, the calls that
\* had returned by then.
Began(t, name, uid) ==
    [t EXCEPT !.entry = name, !.user_id = uid, !.current_time = now, !.seen = seqno_cache,
              !.done_before = IF name = "get_current_seqno"
                              THEN {d \in Tasks : task[d].pc = "done"} ELSE {}]

\* get_current_seqno() called: lines 208-219, to the return from the cache or
\* to the GET being sent.
CallGetCurrentSeqno(c) ==
    /\ calls < MaxCalls /\ task[c].pc = "idle"
    /\ calls' = calls + 1
    /\ task' = [task EXCEPT ![c] =
          IF cache_fresh(seqno_cache, now)
          THEN [Ended(Began(@, "get_current_seqno", 0), Return(seqno_cache.value)) EXCEPT
                   !.current_seqno = seqno_cache.value]
          ELSE [Began(@, "get_current_seqno", 0) EXCEPT
                   !.pc = "info_sent", !.sent = <<InfoRequest>>]]
    /\ UNCHANGED <<now, tip, seqno_cache>> /\ Unverified

\* The upstream answers a getMasterchainInfo request, with its tip of the
\* moment when it answers with one.
ServeMasterchainInfo(c, answers) ==
    /\ task[c].pc = "info_sent"
    /\ \E resp \in answers :
          task' = [task EXCEPT ![c] = [@ EXCEPT !.pc = "info_served", !.info_resp = resp]]
    /\ UNCHANGED <<now, tip, seqno_cache, calls>> /\ Unverified

\* get_current_seqno resumes with the response: lines 220-242.
ResumeGetCurrentSeqno(c) ==
    /\ task[c].pc = "info_served" /\ task[c].entry = "get_current_seqno"
    /\ LET r == seqno_on_response(seqno_cache, task[c].current_time, task[c].info_resp)
       IN /\ seqno_cache' = r.cache
          /\ task' = [task EXCEPT ![c] =
                [Ended(@, Return(r.ret)) EXCEPT !.current_seqno = r.ret]]
    /\ UNCHANGED <<now, tip, calls>> /\ Unverified

\* The loop's clock advances.
Tick ==
    /\ now + TickStep <= MaxTicks * TickStep
    /\ now' = now + TickStep
    /\ UNCHANGED <<tip, seqno_cache, task, calls>> /\ Unverified

\* The masterchain grows by a block.
AdvanceTip ==
    /\ tip < MaxTip
    /\ tip' = tip + 1
    /\ UNCHANGED <<now, seqno_cache, task, calls>> /\ Unverified

\* get_nft_address(user_id) called: lines 247-267, through get_current_seqno
\* to the first request sent.
CallGetNftAddress(c, uid) ==
    /\ calls < MaxNftCalls /\ task[c].pc = "idle"
    /\ calls' = calls + 1
    /\ task' = [task EXCEPT ![c] =
          IF cache_fresh(seqno_cache, now)
          THEN [@ EXCEPT !.entry = "get_nft_address", !.user_id = uid,
                         !.pc = "run_sent", !.current_seqno = seqno_cache.value,
                         !.sent = <<RunRequest(uid, seqno_cache.value)>>]
          ELSE [Began(@, "get_nft_address", uid) EXCEPT
                   !.pc = "info_sent", !.sent = <<InfoRequest>>]]
    /\ UNCHANGED <<now, tip, seqno_cache>> /\ Unverified

\* get_nft_address resumes inside get_current_seqno (lines 220-242) and goes
\* on to send runGetMethod (lines 249-267).  get_current_seqno has returned
\* by then: its locals (current_time, the response) are gone, and only
\* current_seqno remains.
ResumeNftAfterInfo(c) ==
    /\ task[c].pc = "info_served" /\ task[c].entry = "get_nft_address"
    /\ LET r == seqno_on_response(seqno_cache, task[c].current_time, task[c].info_resp)
       IN /\ seqno_cache' = r.cache
          /\ task' = [task EXCEPT ![c] =
                [@ EXCEPT !.pc = "run_sent", !.current_seqno = r.ret,
                          !.sent = Append(@, RunRequest(task[c].user_id, r.ret)),
                          !.current_time = IdleTask.current_time,
                          !.seen = IdleTask.seen, !.info_resp = NoResponse]]
    /\ UNCHANGED <<now, tip, calls>> /\ Unverified

\* The upstream answers a runGetMethod request with one of `answers`.
ServeRunGetMethod(c, answers) ==
    /\ task[c].pc = "run_sent"
    /\ \E resp \in answers :
          task' = [task EXCEPT ![c] = [@ EXCEPT !.pc = "run_served", !.run_resp = resp]]
    /\ UNCHANGED <<now, tip, seqno_cache, calls>> /\ Unverified

\* get_nft_address resumes with the runGetMethod response: lines 268-317, to
\* a return or to the getAddressState request of check_nft_active.
ResumeAfterRun(c) ==
    /\ task[c].pc = "run_served"
    /\ LET r == outer_except(classify_run(task[c].user_id, task[c].run_resp))
       IN task' = [task EXCEPT ![c] =
             IF "check" \in DOMAIN r
             THEN [@ EXCEPT !.pc = "state_sent", !.nft_address_str = r.check,
                            !.sent = Append(@, StateRequest(r.check))]
             ELSE Ended(@, r)]
    /\ UNCHANGED <<now, tip, seqno_cache, calls>> /\ Unverified

\* The upstream answers a getAddressState request.
ServeAddressState(c, answers) ==
    /\ task[c].pc = "state_sent"
    /\ \E resp \in answers :
          task' = [task EXCEPT ![c] = [@ EXCEPT !.pc = "state_served", !.state_resp = resp]]
    /\ UNCHANGED <<now, tip, seqno_cache, calls>> /\ Unverified

\* check_nft_active resumes with the response and get_nft_address returns:
\* lines 186-200 and 317-321.
ResumeAfterState(c) ==
    /\ task[c].pc = "state_served"
    /\ LET is_active == check_nft_active(task[c].state_resp)
       IN task' = [task EXCEPT ![c] = Ended(@,
             outer_except(
                IF is_active.exc # "" THEN is_active
                ELSE Return(JStr(active_message(task[c].user_id, task[c].nft_address_str,
                                                is_active.value)))))]
    /\ UNCHANGED <<now, tip, seqno_cache, calls>> /\ Unverified

\* The caller's await ends: it takes the returned value and the coroutine is
\* gone (line 361, line 403).
ReturnToCaller(c) ==
    /\ task[c].pc = "done"
    /\ task' = [task EXCEPT ![c] = IdleTask]
    /\ UNCHANGED <<now, tip, seqno_cache, calls>> /\ Unverified

\* The process has started: the cache as line 117 sets it, the clock at any
\* reading, no call made.
InitLoop ==
    /\ init_data = <<>> /\ validation = NoResult
    /\ now \in {k * TickStep : k \in 0..MaxTicks}
    /\ tip = 1
    /\ seqno_cache = [value |-> JInt(0), timestamp |-> 0]
    /\ task = [c \in Tasks |-> IdleTask]
    /\ calls = 0

-----------------------------------------------------------------------------
(* SpecSeqno: get_current_seqno calls interleaved on the event loop *)

NextSeqno ==
    \/ \E c \in Tasks : c = calls + 1 /\ CallGetCurrentSeqno(c)
    \/ \E c \in Tasks : ServeMasterchainInfo(c, InfoResponses(tip))
    \/ \E c \in Tasks : ResumeGetCurrentSeqno(c)
    \/ Tick
    \/ AdvanceTip

SpecSeqno == InitLoop /\ [][NextSeqno]_vars

-----------------------------------------------------------------------------
(* SpecNft: get_nft_address calls in flight together on the event loop *)

\* The slots of the handler coroutines that await get_nft_address
\* (check_payment_callback, web_app_handler), one per update being handled.
NftSlots == {1, 2}

\* The answers SpecNft draws: for each exchange a good one and one of each
\* way it fails (network, status, no JSON, ok false, another shape); for
\* runGetMethod also a result that ends the call without a further request.
CoreInfoResponses(n) ==
    HttpFailures \cup
    {Ok(InfoBody(n)),
     Ok(JObj(<<<<"ok", JBool(FALSE)>>, <<"error", JStr("busy")>>>>)),
     Ok(JArr(<<>>)),
     Ok(SeqnoBody(JStr("x")))}
CoreRunResponses ==
    HttpFailures \cup
    {Ok(JObj(<<<<"ok", JBool(FALSE)>>, <<"error", JStr("busy")>>>>)),
     Ok(OkBody(RunResult(FALSE, 0, TRUE, JArr(<<CellOf("BOC_AB")>>), FALSE))),
     Ok(OkBody(RunResult(TRUE, 0, TRUE, JArr(<<CellOf("BOC_ZERO")>>), FALSE))),
     Ok(OkBody(RunResult(FALSE, 0, TRUE, JArr(<<JInt(5)>>), FALSE)))}
CoreStateResponses ==
    HttpFailures \cup
    {Ok(JObj(<<<<"ok", JBool(TRUE)>>, <<"result", JStr("active")>>>>)),
     Ok(JObj(<<<<"ok", JBool(FALSE)>>, <<"result", JStr("active")>>>>)),
     Ok(JArr(<<>>))}

NextNft ==
    \/ \E c \in NftSlots, uid \in UserIds : CallGetNftAddress(c, uid)
    \/ \E c \in NftSlots : ServeMasterchainInfo(c, CoreInfoResponses(tip))
    \/ \E c \in NftSlots : ResumeNftAfterInfo(c)
    \/ \E c \in NftSlots : ServeRunGetMethod(c, CoreRunResponses)
    \/ \E c \in NftSlots : ResumeAfterRun(c)
    \/ \E c \in NftSlots : ServeAddressState(c, CoreStateResponses)
    \/ \E c \in NftSlots : ResumeAfterState(c)
    \/ \E c \in NftSlots : ReturnToCaller(c)
    \/ Tick
    \/ AdvanceTip

SpecNft == InitLoop /\ [][NextNft]_vars

-----------------------------------------------------------------------------
(* SpecLookup: one get_nft_address call from its runGetMethod request on *)
(* (lines 262-333), which reads and writes nothing another call shares   *)

\* A call has sent runGetMethod with the seqno it obtained.
InitLookup ==
    /\ init_data = <<>> /\ validation = NoResult
    /\ now = 0 /\ tip = 1 /\ calls = 1
    /\ \E n \in 0..MaxTip : seqno_cache = [value |-> JInt(n), timestamp |-> 0]
    /\ \E uid \in UserIds :
          task = [c \in Tasks |->
                    IF c = 1
                    THEN [IdleTask EXCEPT !.pc = "run_sent", !.entry = "get_nft_address",
                                          !.user_id = uid,
                                          !.current_seqno = seqno_cache.value,
                                          !.sent = <<RunRequest(uid, seqno_cache.value)>>]
                    ELSE IdleTask]

NextLookup ==
    \/ ServeRunGetMethod(1, RunResponses)
    \/ ResumeAfterRun(1)
    \/ ServeAddressState(1, StateResponses)
    \/ ResumeAfterState(1)

SpecLookup == InitLookup /\ [][NextLookup]_vars

-----------------------------------------------------------------------------
(* SpecVerify *)

Verify ==
    /\ validation = NoResult
    /\ validation' = validate_telegram_webapp_data(init_data)
    /\ UNCHANGED <<init_data, now, tip, seqno_cache, task, calls>>

InitVerify ==
    /\ \E f \in FieldSeqs : \E h \in HashChoices(f) \cup {"none"} : \E front \in BOOLEAN :
           init_data = Payload(f, h, front)
    /\ validation = NoResult
    /\ now = 0 /\ tip = 1 /\ calls = 0
    /\ seqno_cache = [value |-> JInt(0), timestamp |-> 0]
    /\ task = [c \in Tasks |-> IdleTask]

NextVerify == Verify

SpecVerify == InitVerify /\ [][NextVerify]_vars

-----------------------------------------------------------------------------
(* Claims on validate_telegram_webapp_data *)

Verified == validation # NoResult
\* The payload without its hash pairs, and the hash it carries.
FieldsOf(data) == SelectSeq(data, LAMBDA p : p[1] # "hash")
HasHash(data) == HasField(data, "hash")
HashOf(data) == FieldValue(data, "hash")
CorrectlySigned(data) ==
    HasHash(data) /\ HashOf(data) = hexdigest(Signature(FieldsOf(data), BOT_TOKEN))
\* The user field is JSON text of an object with an id member.
UserCarriesId(data) ==
    /\ HasField(data, "user")
    /\ json_loads(FieldValue(data, "user")).exc = ""
    /\ json_loads(FieldValue(data, "user")).value.t = "object"
    /\ \E i \in 1..Len(json_loads(FieldValue(data, "user")).value.v) :
           json_loads(FieldValue(data, "user")).value.v[i][1] = "id"
UserId(data) ==
    LET members == json_loads(FieldValue(data, "user")).value.v
    IN members[CHOOSE i \in 1..Len(members) : members[i][1] = "id"][2]

\* C1: a payload whose hash is the HMAC of its canonical check string and
\* whose user is JSON carrying an id verifies Valid with exactly that id; a
\* payload whose hash differs from the expected one, or that has no hash, is
\* Invalid (a result, not an exception).  The digest that stands for
\* HMAC-SHA256 tells every two check strings of the payloads apart, and the
\* two tokens, so that a hash signed over other fields is a different hash.
C1_Verify ==
    Verified =>
        /\ DigestsDistinct
        /\ (CorrectlySigned(init_data) /\ UserCarriesId(init_data)) =>
               validation = [isValid |-> TRUE, userId |-> UserId(init_data)]
        /\ ~CorrectlySigned(init_data) => validation = [isValid |-> FALSE]

\* Reached: a payload listing user before auth_date, signed over the sorted
\* check string, verified Valid with the id 42 of its user field.
C1_Witness ==
    /\ init_data = <<<<"user", "{\"id\":42}">>, <<"auth_date", "1">>,
                     <<"hash", hexdigest(Signature(FieldsOf(init_data), BOT_TOKEN))>>>>
    /\ validation = [isValid |-> TRUE, userId |-> JInt(42)]

\* C7 as stated: a correctly signed payload whose user field is absent, has no
\* id member, or is not well-formed JSON, verifies Invalid; Valid comes only
\* with an identifier.
C7_ValidOnlyWithId ==
    (Verified /\ CorrectlySigned(init_data) /\ ~UserCarriesId(init_data)) =>
        ~validation.isValid

\* C7 amended: for a correctly signed payload, an absent (or blank) user field
\* gives Invalid with userId None; user text that is not well-formed JSON, or
\* is JSON but not an object, gives Invalid; a user object with no id member
\* gives Valid with userId None.
C7_Amended ==
    (Verified /\ CorrectlySigned(init_data) /\ ~UserCarriesId(init_data)) =>
        IF ~HasField(init_data, "user")
        THEN validation = [isValid |-> FALSE, userId |-> JNull]
        ELSE IF json_loads(FieldValue(init_data, "user")).exc # ""
        THEN validation = [isValid |-> FALSE]
        ELSE IF json_loads(FieldValue(init_data, "user")).value.t # "object"
        THEN validation = [isValid |-> FALSE]
        ELSE validation = [isValid |-> TRUE, userId |-> JNull]

\* Reached: a correctly signed payload whose user object has no id verified
\* Valid with userId None.
C7_Witness ==
    /\ CorrectlySigned(init_data)
    /\ HasField(init_data, "user")
    /\ FieldValue(init_data, "user") = "{\"name\":\"a\"}"
    /\ validation = [isValid |-> TRUE, userId |-> JNull]

-----------------------------------------------------------------------------
(* Claims on get_current_seqno and _seqno_cache *)

SeqnoCalls == {c \in Tasks : task[c].entry = "get_current_seqno"}
Returned(c) == task[c].pc = "done"
Issued(c) == task[c].sent # <<>>
\* The getMasterchainInfo answers that carry a seqno; every other answer is
\* a failed fetch of the tip.
WellFormedInfo(resp) == \E n \in 0..MaxTip : resp = Ok(InfoBody(n))
Answered(c) == task[c].info_resp # NoResponse
\* Call c refreshed the cache from a well-formed answer.
Refreshed(c) == Returned(c) /\ Issued(c) /\ WellFormedInfo(task[c].info_resp)
\* A call's own cache rule: what it did, given the cache it found.
FreshAtCall(c) == task[c].current_time - task[c].seen.timestamp < 60
CacheRule(c) ==
    IF FreshAtCall(c)
    THEN ~Issued(c) /\ Returned(c) /\ task[c].ret = Return(task[c].seen.value)
    ELSE task[c].sent = <<InfoRequest>>

\* C4 as stated: of any two calls made within 60 seconds of each other at
\* most one issues a getMasterchainInfo request; a call made while
\* now - observedAt < 60 returns the cached value with no request, and a call
\* made when now - observedAt >= 60 issues a request.
C4_AtMostOneRequestPer60s ==
    /\ \A a, b \in SeqnoCalls :
          (a < b /\ task[b].current_time - task[a].current_time < 60)
              => ~(Issued(a) /\ Issued(b))
    /\ \A c \in SeqnoCalls : CacheRule(c)

\* Call a returned from a successful refresh before call b was made, and no
\* call that sent a request returned between the two.
LastRefreshBefore(a, b) ==
    /\ a \in task[b].done_before /\ Refreshed(a)
    /\ \A e \in task[b].done_before \ {a} : Issued(e) => e \in task[a].returned_after

\* C4 amended: of two calls made within 60 seconds of each other the later
\* one issues no request, and returns what the earlier one returned, when the
\* earlier one had returned from a successful refresh and no other call that
\* sent a request returned in between; the two rules on now - observedAt
\* hold as stated.
C4_Amended ==
    /\ \A a, b \in SeqnoCalls :
          (LastRefreshBefore(a, b) /\ task[b].current_time - task[a].current_time < 60)
              => (~Issued(b) /\ task[b].ret = task[a].ret)
    /\ \A c \in SeqnoCalls : CacheRule(c)

\* Reached: call 1 refreshed the cache; call 2, made 30 seconds later, was
\* answered from the cache with no request.
C4_Witness ==
    /\ Refreshed(1) /\ task[1].ret = Return(JInt(2))
    /\ task[2].entry = "get_current_seqno" /\ 1 \in task[2].done_before
    /\ task[2].current_time = task[1].current_time + TickStep
    /\ ~Issued(2) /\ task[2].ret = Return(JInt(2))

\* Call c resumes with its answer in this step.
Resumes(c) == task[c].pc = "info_served" /\ task'[c].pc # "info_served"
\* Call c begins in this step.
Begins(c) == task[c].pc = "idle" /\ task'[c].pc # "idle"
\* At the moment call d begins, the last call to have returned is one whose
\* fetch failed.
LastReturnedFailed(d) ==
    \E c \in SeqnoCalls :
        /\ Returned(c) /\ Issued(c) /\ ~WellFormedInfo(task[c].info_resp)
        /\ \A e \in Tasks \ {c} : Returned(e) => e \in task[c].returned_after
        /\ \A e \in Tasks : ~Returned(e) => task[e].pc = "idle"

\* C5 as stated: when the getMasterchainInfo call fails (network error,
\* non-2xx, malformed JSON, ok false, no result.last.seqno) the call returns
\* the previously cached value, leaves value and observedAt unchanged, and the
\* very next call issues the request again.
C5_FailureKeepsCache ==
    [][ /\ \A c \in SeqnoCalls :
              (Resumes(c) /\ ~WellFormedInfo(task[c].info_resp))
                  => (seqno_cache' = seqno_cache /\ task'[c].ret = Return(seqno_cache.value))
        /\ \A d \in Tasks :
              (Begins(d) /\ LastReturnedFailed(d)) => task'[d].sent = <<InfoRequest>>
      ]_vars

\* C6 as stated: the upstream tip never decreasing (AdvanceTip), every write
\* of a served tip to the cache stores a value greater than or equal to the
\* integer it replaces, whatever the interleaving of the calls.
C6_CacheMonotone ==
    [][\A c \in SeqnoCalls :
          (Resumes(c) /\ WellFormedInfo(task[c].info_resp))
              => (seqno_cache.value.t = "int" => seqno_cache'.value.v >= seqno_cache.value.v)]_vars

\* C10 as stated: the first call of a process issues a getMasterchainInfo
\* request whatever the clock reads, and a call returns 0 only when the cache
\* was never populated and a request was attempted and failed.
C10_FirstCallFetches ==
    /\ task[1].entry = "get_current_seqno" => Issued(1)
    /\ \A c \in SeqnoCalls :
          (Returned(c) /\ task[c].ret = Return(JInt(0)))
              => /\ Issued(c) /\ ~WellFormedInfo(task[c].info_resp)
                 /\ \A e \in task[c].returned_after : ~Refreshed(e)

-----------------------------------------------------------------------------
(* Claims on get_nft_address and check_nft_active *)

NftCalls == {c \in Tasks : task[c].entry = "get_nft_address"}
Message(c) == task[c].ret.value.v
Minted(address) == CHECK \o " Minted NFT Address: " \o address

\* The containers that hold an address, and those whose address has a
\* hash part that is not all zero.
AddressBocs == {b \in Bocs : load_address(b).exc = "" /\ load_address(b).value # JNull}
NonZeroBocs == {b \in AddressBocs : \E i \in 1..HashPartLen : load_address(b).value.hash_part[i] # 0}
ZeroBocs == AddressBocs \ NonZeroBocs
Rendered(b) == to_str(load_address(b).value)

\* The runGetMethod answer, read as the claims do.
HasBody(resp) == resp.status = "ok" /\ resp.body.t = "object"
Member(obj, name) ==
    IF \E i \in 1..Len(obj.v) : obj.v[i][1] = name
    THEN obj.v[CHOOSE i \in 1..Len(obj.v) : obj.v[i][1] = name][2]
    ELSE JNull
AnsweredOk(resp) == HasBody(resp) /\ Member(resp.body, "ok") = JBool(TRUE)
\* An ok answer whose result is an object with members: what lines 281-329
\* classify.
OkResult(resp) ==
    /\ AnsweredOk(resp)
    /\ Member(resp.body, "result").t = "object"
    /\ Member(resp.body, "result").v # <<>>
\* An ok answer whose result is an object, with members or without.
ObjectResult(resp) == AnsweredOk(resp) /\ Member(resp.body, "result").t = "object"
ExitCode(resp) == Member(Member(resp.body, "result"), "exit_code")
Stack(resp) == Member(Member(resp.body, "result"), "stack")
ExitCodePasses(resp) == ExitCode(resp) \in {JNull, JInt(0), JInt(-1)}
EmptyStack(resp) == Stack(resp) = JNull \/ Stack(resp) = JArr(<<>>)
\* The stack is a list and its first entry is a [type, value] pair.
FirstIsPair(resp) ==
    /\ Stack(resp).t = "array" /\ Stack(resp).v # <<>>
    /\ Stack(resp).v[1].t = "array" /\ Len(Stack(resp).v[1].v) = 2
FirstType(resp) == Stack(resp).v[1].v[1]
FirstValue(resp) == Stack(resp).v[1].v[2]
\* The first entry is a cell with a bytes member.
FirstIsCell(resp) ==
    /\ FirstIsPair(resp) /\ FirstType(resp) = JStr("cell")
    /\ FirstValue(resp).t = "object"
    /\ \E i \in 1..Len(FirstValue(resp).v) : FirstValue(resp).v[i][1] = "bytes"
\* The bytes of the cell decode to an address with a hash part that is not
\* all zero, or that is all zero.
FirstBoc(resp) == Member(FirstValue(resp), "bytes").v
DecodesNonZero(resp) ==
    /\ FirstIsCell(resp) /\ Member(FirstValue(resp), "bytes").t = "str"
    /\ FirstBoc(resp) \in NonZeroBocs
DecodesZero(resp) ==
    /\ FirstIsCell(resp) /\ Member(FirstValue(resp), "bytes").t = "str"
    /\ FirstBoc(resp) \in ZeroBocs

\* getAddressState answered 2xx with ok true and result "active".
AnsweredActive(resp) == AnsweredOk(resp) /\ Member(resp.body, "result") = JStr("active")

\* C2: a get_nft_address call returns the minted message if and only if, in
\* that call, runGetMethod answered ok with exit_code absent, 0 or -1 and a
\* first stack entry that is a cell whose bytes decode to an address with a
\* non-zero hash part, and the getAddressState call that followed answered
\* ok with result "active"; the address in the message is the one sent to
\* getAddressState.
C2_MintedIff ==
    \A c \in NftCalls : Returned(c) =>
        LET run == task[c].run_resp
            MintedCase == /\ run # NoResponse /\ OkResult(run) /\ ExitCodePasses(run)
                          /\ DecodesNonZero(run)
                          /\ AnsweredActive(task[c].state_resp)
        IN /\ MintedCase =>
                /\ task[c].sent[Len(task[c].sent)] = StateRequest(Rendered(FirstBoc(run)))
                /\ task[c].ret = Return(JStr(Minted(Rendered(FirstBoc(run)))))
           /\ ~MintedCase =>
                /\ task[c].ret.exc = ""
                /\ \A b \in AddressBocs : Message(c) # Minted(Rendered(b))

\* Reached: a call whose runGetMethod answer had no exit_code and the cell
\* of the address with only its last hash byte set, confirmed active, returned
\* the minted message with that address.
C2_Witness ==
    /\ Returned(1) /\ task[1].entry = "get_nft_address"
    /\ task[1].run_resp = Ok(OkBody(JObj(<<<<"stack", JArr(<<CellOf("BOC_LOW")>>)>>>>)))
    /\ AnsweredActive(task[1].state_resp)
    /\ Message(1) = Minted("EQ0_0_1")

\* The messages the precedence of C3 gives for an answer whose result is an
\* object and whose first stack entry, if any, is a [type, value] pair.
Classified(c) ==
    LET run == task[c].run_resp
        uid == task[c].user_id
    IN IF ExitCode(run) \notin {JNull, JInt(0), JInt(-1), JInt(-14)}
       THEN Message(c) = INFO \o " NFT for user " \o ToString(uid)
                         \o " is likely not minted (exit code: " \o ToString(ExitCode(run).v) \o ")."
       ELSE IF ExitCode(run) = JInt(-14)
       THEN Message(c) = NotMinted(uid, "not minted (index not found in collection)")
       ELSE IF EmptyStack(run)
       THEN Message(c) = NotMinted(uid, "not minted (empty stack)")
       ELSE FirstIsPair(run) =>
            IF FirstType(run) = JStr("null")
               \/ (FirstType(run) = JStr("num") /\ FirstValue(run) = JStr("0"))
            THEN Message(c) = NotMinted(uid, "not minted (no address found)")
            ELSE IF FirstIsCell(run)
            THEN DecodesZero(run)
                    => Message(c) = NotMinted(uid, "not minted (zero address returned)")
            ELSE Message(c) = "Unexpected data format in blockchain response."

\* C3 as stated: an ok runGetMethod result is classified by this precedence,
\* for every combination of exit code and stack: an exit code outside
\* {0, -1, -14} gives the generic message whatever the stack; -14 gives
\* "index not found" whatever the stack; otherwise an empty or missing stack
\* gives "empty stack"; a first entry of type null, or num with value "0",
\* gives "no address found"; a cell whose bytes decode to an all-zero hash
\* part gives "zero address returned"; any other first entry gives
\* "Unexpected data format".
C3_Precedence ==
    \A c \in NftCalls :
        (Returned(c) /\ task[c].run_resp # NoResponse /\ ObjectResult(task[c].run_resp))
            => Classified(c)

\* The first entry of the stack is a list of another length than two, null
\* or a number: nothing line 297 can unpack into a type and a value.
FirstNotUnpackable(resp) ==
    /\ Stack(resp).t = "array" /\ Stack(resp).v # <<>>
    /\ \/ Stack(resp).v[1].t \in {"null", "int", "bool"}
       \/ Stack(resp).v[1].t = "array" /\ Len(Stack(resp).v[1].v) # 2

\* C3 amended: the precedence holds for an ok answer whose result object has
\* at least one member; a result object with no member at all (no exit code
\* and no stack among them) gives "Invalid response from blockchain"; a
\* first entry that cannot be unpacked into a type and a value, once the exit
\* code has passed, is answered by the outer handler.
C3_Amended ==
    \A c \in NftCalls :
        (Returned(c) /\ task[c].run_resp # NoResponse /\ ObjectResult(task[c].run_resp))
            => IF OkResult(task[c].run_resp)
               THEN /\ Classified(c)
                    /\ (ExitCodePasses(task[c].run_resp) /\ FirstNotUnpackable(task[c].run_resp))
                          => Message(c) \in {"An unexpected error occurred: ValueError",
                                             "An unexpected error occurred: TypeError"}
               ELSE Message(c) = "Invalid response from blockchain"

\* Reached: an answer with exit code 11 and a stack holding a good cell was
\* reported as likely not minted.
C3_Witness ==
    /\ Returned(1) /\ task[1].entry = "get_nft_address"
    /\ task[1].run_resp = Ok(OkBody(JObj(<<<<"exit_code", JInt(11)>>,
                                            <<"stack", JArr(<<CellOf("BOC_AB")>>)>>>>)))
    /\ Message(1) = INFO \o " NFT for user 7 is likely not minted (exit code: 11)."

\* An exchange that did not end in an answer of the expected kind.
FailedExchange(resp) == resp # NoResponse /\ ~AnsweredOk(resp)

\* C8: no upstream failure escapes as an exception: whatever
\* getMasterchainInfo, runGetMethod and getAddressState end in,
\* get_current_seqno returns an integer (and get_nft_address goes on to
\* runGetMethod), check_nft_active answers False on a failure, and
\* get_nft_address returns a message string.
C8_NoEscape ==
    \A c \in NftCalls :
        /\ (Issued(c) /\ task[c].sent[1] = InfoRequest
                       /\ task[c].pc \notin {"info_sent", "info_served"})
              => /\ task[c].current_seqno.t = "int" /\ Len(task[c].sent) >= 2
                 /\ task[c].sent[2] = RunRequest(task[c].user_id, task[c].current_seqno)
        /\ Returned(c) => (task[c].ret.exc = "" /\ task[c].ret.value.t = "str")
        /\ (Returned(c) /\ FailedExchange(task[c].state_resp))
              => Message(c) = NotMinted(task[c].user_id,
                                  "not minted (address " \o task[c].nft_address_str \o " is not active)")

\* The getMasterchainInfo answer is ok and its result.last has a seqno
\* member, an integer or not.
LastBlock(resp) == Member(Member(resp.body, "result"), "last")
CarriesSeqno(resp) ==
    /\ AnsweredOk(resp)
    /\ Member(resp.body, "result").t = "object"
    /\ LastBlock(resp).t = "object"
    /\ \E i \in 1..Len(LastBlock(resp).v) : LastBlock(resp).v[i][1] = "seqno"

\* The endpoints of the requests of call c so far, and the orders they may
\* come in.
Endpoints(c) == [i \in 1..Len(task[c].sent) |-> task[c].sent[i].endpoint]
RequestOrders ==
    {<<"getMasterchainInfo">>,
     <<"getMasterchainInfo", "runGetMethod">>,
     <<"getMasterchainInfo", "runGetMethod", "getAddressState">>,
     <<"runGetMethod">>,
     <<"runGetMethod", "getAddressState">>}

\* C9: within one get_nft_address call the cache is consulted first and at
\* most one getMasterchainInfo request is sent, only when the cache is stale;
\* then exactly one runGetMethod request, carrying the tip that step returned
\* (the seqno member of the answer, or the cached value or 0 when the answer
\* carried none); then at
\* most one getAddressState request, only after the runGetMethod result
\* decoded to an address with a non-zero hash part; the message comes after
\* the last request has completed.
C9_RequestOrder ==
    /\ [](\A c \in NftCalls :
            LET t == task[c]
                n == Len(t.sent)
            IN /\ Endpoints(c) \in RequestOrders
               /\ \A i \in 1..n : t.sent[i].endpoint = "runGetMethod"
                                      => t.sent[i] = RunRequest(t.user_id, t.current_seqno)
               /\ t.sent[n].endpoint = "getAddressState" =>
                     /\ OkResult(t.run_resp) /\ DecodesNonZero(t.run_resp)
                     /\ t.sent[n].address = Rendered(FirstBoc(t.run_resp))
               /\ Returned(c) =>
                     /\ t.run_resp # NoResponse
                     /\ t.sent[n].endpoint = "getAddressState" => t.state_resp # NoResponse)
    /\ [][\A c \in Tasks :
            /\ (Begins(c) /\ task'[c].entry = "get_nft_address") =>
                  IF now - seqno_cache.timestamp < 60
                  THEN task'[c].sent = <<RunRequest(task'[c].user_id, seqno_cache.value)>>
                  ELSE task'[c].sent = <<InfoRequest>>
            /\ (Resumes(c) /\ task[c].entry = "get_nft_address") =>
                  /\ task[c].sent = <<InfoRequest>> /\ Answered(c)
                  /\ task'[c].sent = <<InfoRequest,
                                        RunRequest(task[c].user_id, task'[c].current_seqno)>>
                  /\ IF CarriesSeqno(task[c].info_resp)
                     THEN task'[c].current_seqno = Member(LastBlock(task[c].info_resp), "seqno")
                     ELSE task'[c].current_seqno \in {seqno_cache.value, JInt(0)}]_vars

\* Reached: a call that found the cache stale and whose tip fetch failed
\* (the cache is still as line 117 set it) sent getMasterchainInfo, then
\* runGetMethod with the value 0 that step returned, then getAddressState
\* with the decoded address, and returned.
C9_Witness ==
    /\ Returned(1) /\ task[1].entry = "get_nft_address"
    /\ seqno_cache = [value |-> JInt(0), timestamp |-> 0]
    /\ task[1].sent = <<InfoRequest, RunRequest(7, JInt(0)), StateRequest("EQ0_171_171")>>
    /\ task[1].state_resp # NoResponse

====
